---- MODULE Spec2Model ----
(***************************************************************************)
(* Model of the session/message bookkeeping of chat-overlay                *)
(* (src-tauri/src/lib.rs): Message, ChatSession, Store and the completion  *)
(* request helper chat_requests::requeset_chat_model.                      *)
(*                                                                         *)
(* Option<T> is modelled as a sequence: None is <<>>, Some(x) is <<x>>.    *)
(* Result and panic outcomes are records with a tag.                       *)
(***************************************************************************)
EXTENDS Integers, Sequences, FiniteSets, TLC

(* ---------------------------------------------------------------------- *)
(* Bounds of the model                                                     *)
(* ---------------------------------------------------------------------- *)

\* ChatSession.msg_id_counter of the free-standing session is kept <= this
MaxMsgId == 4
\* Store.session_id_counter is kept <= this
MaxSessionId == 3

(* ---------------------------------------------------------------------- *)
(* Values                                                                  *)
(* ---------------------------------------------------------------------- *)

None == <<>>
Some(x) == <<x>>

\* async_openai::types::Role, the three participants the program uses
Roles == {"System", "User", "Assistant"}

\* chat_requests::CHAT_MODEL, the default model of requeset_chat_model
CHAT_MODEL == "gpt-3.5-turbo"

\* ChatCompletionRequestMessage { role, content, name, function_call }
RequestMsg(role, content) ==
    [role |-> role, content |-> content, name |-> None, function_call |-> None]

\* ChatCompletionResponseMessage { role, content, function_call }
ResponseMsg(role, content) ==
    [role |-> role, content |-> content, function_call |-> None]

\* ChatMessageTrait::get_role, the same for both wire shapes
get_role(msg) == msg.role

\* ChatMessageTrait::get_content: the content, or the empty string if absent
get_content(msg) == IF msg.content = None THEN "" ELSE msg.content[1]

\* Message::new(id, role, content); t is the reading of SystemTime::now()
Message_new(id, role, content, t) ==
    [id |-> id, content |-> content, created_at |-> t, role |-> role]

\* to_chat_resquest_msg that gives an empty text back as an absent content
to_chat_resquest_msg_absent_if_empty(m) ==
    [role |-> m.role,
     content |-> IF m.content = "" THEN None ELSE Some(m.content),
     name |-> None, function_call |-> None]

\* Message::to_chat_resquest_msg
to_chat_resquest_msg(m) ==
    [role |-> m.role, content |-> Some(m.content), name |-> None,
     function_call |-> None]

\* Message::to_chat_response_msg
to_chat_response_msg(m) ==
    [role |-> m.role, content |-> Some(m.content), function_call |-> None]

\* ChatSession::new(id, title, model)
ChatSession_new(id, title, model) ==
    [id |-> id, title |-> title, messages |-> <<>>, msg_id_counter |-> 0,
     model |-> model]

\* Option::unwrap_or
unwrap_or(opt, default) == IF opt = None THEN default ELSE opt[1]

\* iter().map(|x| x.to_chat_resquest_msg()).collect()
to_request_msgs(msgs) ==
    [i \in 1..Len(msgs) |-> to_chat_resquest_msg(msgs[i])]

(* ---------------------------------------------------------------------- *)
(* The completion client                                                   *)
(* ---------------------------------------------------------------------- *)

\* The request CreateChatCompletionRequestArgs builds in requeset_chat_model
CreateChatCompletionRequest(messages, model) ==
    [model |-> unwrap_or(model, CHAT_MODEL), messages |-> messages,
     max_tokens |-> 100]

\* chat_requests::requeset_chat_model. outcome is what client.chat().create
\* yields: [tag |-> "Err", err |-> e] or [tag |-> "Response", choices |-> seq].
\* The result is Ok(first choice's message), Err(e), or a panic of expect()
\* when the choices are empty.
requeset_chat_model(messages, model, outcome) ==
    LET request == CreateChatCompletionRequest(messages, model)
    IN  IF outcome.tag = "Err"
        THEN [tag |-> "Err", val |-> outcome.err, sent |-> <<request>>]
        ELSE IF Len(outcome.choices) = 0
             THEN [tag |-> "Panic",
                   val |-> "Response had an empty choice field",
                   sent |-> <<request>>]
             ELSE [tag |-> "Ok", val |-> outcome.choices[1].message,
                   sent |-> <<request>>]

(* ---------------------------------------------------------------------- *)
(* ChatSession                                                             *)
(* ---------------------------------------------------------------------- *)

\* add_chat_message that puts the new record at the front of the sequence
add_chat_message_at_front(s, msg, t) ==
    [s EXCEPT !.msg_id_counter = s.msg_id_counter + 1,
              !.messages = <<Message_new(s.msg_id_counter, get_role(msg),
                                         get_content(msg), t)>> \o s.messages]

\* ChatSession::add_chat_message(msg); t is the clock reading of Message::new
add_chat_message(s, msg, t) ==
    [s EXCEPT !.msg_id_counter = s.msg_id_counter + 1,
              !.messages = Append(s.messages,
                  Message_new(s.msg_id_counter, get_role(msg),
                              get_content(msg), t))]

\* add_message with the reply stored before the user turn
add_message_reply_first(s, contents, outcome, t0, t1, t2) ==
    LET chat_request_msg == RequestMsg("User", Some(contents))
        msg == Message_new(s.msg_id_counter, "User", contents, t0)
        temp_messages == Append(s.messages, msg)
        response == requeset_chat_model(
                        to_request_msgs(temp_messages),
                        Some(s.model), outcome)
    IN  IF response.tag = "Ok"
        THEN [session |-> add_chat_message(
                              add_chat_message(s, response.val, t1),
                              chat_request_msg, t2),
              tag |-> "Ok", val |-> <<>>, sent |-> response.sent]
        ELSE [session |-> s, tag |-> response.tag, val |-> response.val,
              sent |-> response.sent]

\* add_message with the user turn stored before the client is asked
add_message_commits_early(s, contents, outcome, t0, t1, t2) ==
    LET chat_request_msg == RequestMsg("User", Some(contents))
        stored == add_chat_message(s, chat_request_msg, t0)
        response == requeset_chat_model(
                        to_request_msgs(stored.messages),
                        Some(s.model), outcome)
    IN  IF response.tag = "Ok"
        THEN [session |-> add_chat_message(stored, response.val, t2),
              tag |-> "Ok", val |-> <<>>, sent |-> response.sent]
        ELSE [session |-> stored, tag |-> response.tag, val |-> response.val,
              sent |-> response.sent]

\* add_message that sends the stored messages only, without the pending turn
add_message_sends_stored_only(s, contents, outcome, t0, t1, t2) ==
    LET chat_request_msg == RequestMsg("User", Some(contents))
        response == requeset_chat_model(
                        to_request_msgs(s.messages),
                        Some(s.model), outcome)
    IN  IF response.tag = "Ok"
        THEN [session |-> add_chat_message(
                              add_chat_message(s, chat_request_msg, t1),
                              response.val, t2),
              tag |-> "Ok", val |-> <<>>, sent |-> response.sent]
        ELSE [session |-> s, tag |-> response.tag, val |-> response.val,
              sent |-> response.sent]

\* add_message that asks the client a second time when it reports an error
add_message_retries_once(s, contents, outcome, t0, t1, t2) ==
    LET chat_request_msg == RequestMsg("User", Some(contents))
        msg == Message_new(s.msg_id_counter, "User", contents, t0)
        temp_messages == Append(s.messages, msg)
        first == requeset_chat_model(
                     to_request_msgs(temp_messages), Some(s.model), outcome)
        response == IF first.tag = "Err"
                    THEN [first EXCEPT !.sent = first.sent \o first.sent]
                    ELSE first
    IN  IF response.tag = "Ok"
        THEN [session |-> add_chat_message(
                              add_chat_message(s, chat_request_msg, t1),
                              response.val, t2),
              tag |-> "Ok", val |-> <<>>, sent |-> response.sent]
        ELSE [session |-> s, tag |-> response.tag, val |-> response.val,
              sent |-> response.sent]

\* add_message in which a deletion of the oldest record takes effect while
\* the client is being asked
add_message_interleaved_delete(s, contents, outcome, t0, t1, t2) ==
    LET chat_request_msg == RequestMsg("User", Some(contents))
        msg == Message_new(s.msg_id_counter, "User", contents, t0)
        temp_messages == Append(s.messages, msg)
        response == requeset_chat_model(
                        to_request_msgs(temp_messages),
                        Some(s.model), outcome)
        later == IF s.messages = <<>> THEN s
                 ELSE [s EXCEPT !.messages = Tail(s.messages)]
    IN  IF response.tag = "Ok"
        THEN [session |-> add_chat_message(
                              add_chat_message(later, chat_request_msg, t1),
                              response.val, t2),
              tag |-> "Ok", val |-> <<>>, sent |-> response.sent]
        ELSE [session |-> s, tag |-> response.tag, val |-> response.val,
              sent |-> response.sent]

\* add_message that takes the id of the pending turn from the counter for
\* good, whether the client answers or not
add_message_burns_id(s, contents, outcome, t0, t1, t2) ==
    LET chat_request_msg == RequestMsg("User", Some(contents))
        msg == Message_new(s.msg_id_counter, "User", contents, t0)
        temp_messages == Append(s.messages, msg)
        response == requeset_chat_model(
                        to_request_msgs(temp_messages),
                        Some(s.model), outcome)
    IN  IF response.tag = "Ok"
        THEN [session |-> add_chat_message(
                              add_chat_message(s, chat_request_msg, t1),
                              response.val, t2),
              tag |-> "Ok", val |-> <<>>, sent |-> response.sent]
        ELSE [session |-> [s EXCEPT !.msg_id_counter = s.msg_id_counter + 1],
              tag |-> response.tag, val |-> response.val,
              sent |-> response.sent]

\* add_message that stores the reply with the role Assistant whatever role
\* the client returned
add_message_coerces_role(s, contents, outcome, t0, t1, t2) ==
    LET chat_request_msg == RequestMsg("User", Some(contents))
        msg == Message_new(s.msg_id_counter, "User", contents, t0)
        temp_messages == Append(s.messages, msg)
        response == requeset_chat_model(
                        to_request_msgs(temp_messages),
                        Some(s.model), outcome)
    IN  IF response.tag = "Ok"
        THEN [session |-> add_chat_message(
                              add_chat_message(s, chat_request_msg, t1),
                              [response.val EXCEPT !.role = "Assistant"], t2),
              tag |-> "Ok", val |-> <<>>, sent |-> response.sent]
        ELSE [session |-> s, tag |-> response.tag, val |-> response.val,
              sent |-> response.sent]

\* ChatSession::add_message(contents, client). t0, t1, t2 are the clock
\* readings of the three Message::new calls, outcome is the client's answer.
\* Yields the session afterwards, the result and the requests sent.
add_message(s, contents, outcome, t0, t1, t2) ==
    LET chat_request_msg == RequestMsg("User", Some(contents))
        msg == Message_new(s.msg_id_counter, "User", contents, t0)
        temp_messages == Append(s.messages, msg)
        response == requeset_chat_model(
                        to_request_msgs(temp_messages),
                        Some(s.model), outcome)
    IN  IF response.tag = "Ok"
        THEN [session |-> add_chat_message(
                              add_chat_message(s, chat_request_msg, t1),
                              response.val, t2),
              tag |-> "Ok", val |-> <<>>, sent |-> response.sent]
        ELSE [session |-> s, tag |-> response.tag, val |-> response.val,
              sent |-> response.sent]

\* the fold with the matching entry pushed to the accumulator as well
RECURSIVE delete_fold_keeps_match(_, _, _)
delete_fold_keeps_match(items, id, n) ==
    IF n = 0
    THEN [accumulator |-> <<>>, target |-> None]
    ELSE LET prev == delete_fold_keeps_match(items, id, n - 1)
             curr == items[n]
         IN  [accumulator |-> Append(prev.accumulator, curr),
              target |-> IF curr.id = id THEN Some(curr) ELSE prev.target]

\* the fold with the accumulator started afresh at the matching entry
RECURSIVE delete_fold_restarts(_, _, _)
delete_fold_restarts(items, id, n) ==
    IF n = 0
    THEN [accumulator |-> <<>>, target |-> None]
    ELSE LET prev == delete_fold_restarts(items, id, n - 1)
             curr == items[n]
         IN  IF curr.id = id
             THEN [accumulator |-> <<>>, target |-> Some(curr)]
             ELSE [accumulator |-> Append(prev.accumulator, curr),
                   target |-> prev.target]

\* The fold of delete_message / delete_session over items[1..n]: accumulator
\* is the vector the closure pushes to, target the folded Option
RECURSIVE delete_fold(_, _, _)
delete_fold(items, id, n) ==
    IF n = 0
    THEN [accumulator |-> <<>>, target |-> None]
    ELSE LET prev == delete_fold(items, id, n - 1)
             curr == items[n]
         IN  IF curr.id = id
             THEN [accumulator |-> prev.accumulator, target |-> Some(curr)]
             ELSE [accumulator |-> Append(prev.accumulator, curr),
                   target |-> prev.target]

\* delete_message that sets the counter back to the number of records left
delete_message_rewinds(s, id) ==
    LET f == delete_fold(s.messages, id, Len(s.messages))
    IN  [session |-> [s EXCEPT !.messages = f.accumulator,
                               !.msg_id_counter = Len(f.accumulator)],
         target |-> f.target]

\* ChatSession::delete_message(id): the session afterwards and the Option
delete_message(s, id) ==
    LET f == delete_fold(s.messages, id, Len(s.messages))
    IN  [session |-> [s EXCEPT !.messages = f.accumulator],
         target |-> f.target]

\* rename_session that keeps the old title when the new one is empty
rename_session_rejects_empty(s, new_title) ==
    IF new_title = "" THEN s ELSE [s EXCEPT !.title = new_title]

\* ChatSession::rename_session(new_title)
rename_session(s, new_title) == [s EXCEPT !.title = new_title]

(* ---------------------------------------------------------------------- *)
(* Store                                                                   *)
(* ---------------------------------------------------------------------- *)

\* Store::new(client): no sessions, counter 0 (the client is the capability
\* whose answers are the outcome inputs of the actions)
Store_new == [sessions |-> <<>>, session_id_counter |-> 0]

\* Store::get_all_sessions
get_all_sessions(st) == st.sessions

\* get_session that takes the id as the position in the list
get_session_by_position(st, id) ==
    IF id + 1 <= Len(st.sessions) THEN Some(st.sessions[id + 1]) ELSE None

\* Store::get_session(id): iter().find, the first session with that id
get_session(st, id) ==
    LET hits == {i \in 1..Len(st.sessions) : st.sessions[i].id = id}
    IN  IF hits = {}
        THEN None
        ELSE Some(st.sessions[CHOOSE i \in hits : \A j \in hits : i <= j])

\* add_session that registers the session whatever add_message returned
add_session_registers_always(st, msg, title, model, outcome, t0, t1, t2) ==
    LET id == st.session_id_counter
        chs0 == ChatSession_new(id, title, model)
        r == add_message(chs0, get_content(msg), outcome, t0, t1, t2)
    IN  [store |-> [st EXCEPT
                      !.session_id_counter = st.session_id_counter + 1,
                      !.sessions = Append(st.sessions, r.session)],
         tag |-> r.tag, val |-> r.val, sent |-> r.sent]

\* add_session that increments the counter before it takes the id
add_session_counts_first(st, msg, title, model, outcome, t0, t1, t2) ==
    LET id == st.session_id_counter + 1
        chs0 == ChatSession_new(id, title, model)
        r == add_message(chs0, get_content(msg), outcome, t0, t1, t2)
    IN  IF r.tag = "Ok"
        THEN [store |-> [st EXCEPT
                           !.session_id_counter = st.session_id_counter + 1,
                           !.sessions = Append(st.sessions, r.session)],
              tag |-> "Ok", val |-> <<>>, sent |-> r.sent]
        ELSE [store |-> st, tag |-> r.tag, val |-> r.val, sent |-> r.sent]

\* add_session that takes the number of sessions as the id
add_session_id_from_len(st, msg, title, model, outcome, t0, t1, t2) ==
    LET id == Len(st.sessions)
        chs0 == ChatSession_new(id, title, model)
        r == add_message(chs0, get_content(msg), outcome, t0, t1, t2)
    IN  IF r.tag = "Ok"
        THEN [store |-> [st EXCEPT
                           !.session_id_counter = st.session_id_counter + 1,
                           !.sessions = Append(st.sessions, r.session)],
              tag |-> "Ok", val |-> <<>>, sent |-> r.sent]
        ELSE [store |-> st, tag |-> r.tag, val |-> r.val, sent |-> r.sent]

\* add_session that stores the initial message as it is (as the client-less
\* Store of chat_models.rs does) before it submits the content
add_session_appends_initial(st, msg, title, model, outcome, t0, t1, t2) ==
    LET id == st.session_id_counter
        chs0 == add_chat_message(ChatSession_new(id, title, model), msg, t0)
        r == add_message(chs0, get_content(msg), outcome, t0, t1, t2)
    IN  IF r.tag = "Ok"
        THEN [store |-> [st EXCEPT
                           !.session_id_counter = st.session_id_counter + 1,
                           !.sessions = Append(st.sessions, r.session)],
              tag |-> "Ok", val |-> <<>>, sent |-> r.sent]
        ELSE [store |-> st, tag |-> r.tag, val |-> r.val, sent |-> r.sent]

\* add_session that keeps the role of the initial message for the first
\* record
add_session_keeps_role(st, msg, title, model, outcome, t0, t1, t2) ==
    LET id == st.session_id_counter
        chs0 == ChatSession_new(id, title, model)
        r == add_message(chs0, get_content(msg), outcome, t0, t1, t2)
    IN  IF r.tag = "Ok"
        THEN [store |-> [st EXCEPT
                           !.session_id_counter = st.session_id_counter + 1,
                           !.sessions = Append(st.sessions,
                               [r.session EXCEPT
                                   !.messages[1].role = get_role(msg)])],
              tag |-> "Ok", val |-> <<>>, sent |-> r.sent]
        ELSE [store |-> st, tag |-> r.tag, val |-> r.val, sent |-> r.sent]

\* Store::add_session(msg, title, model): the store afterwards, the result
\* and the requests sent
add_session(st, msg, title, model, outcome, t0, t1, t2) ==
    LET id == st.session_id_counter
        chs0 == ChatSession_new(id, title, model)
        r == add_message(chs0, get_content(msg), outcome, t0, t1, t2)
    IN  IF r.tag = "Ok"
        THEN [store |-> [st EXCEPT
                           !.session_id_counter = st.session_id_counter + 1,
                           !.sessions = Append(st.sessions, r.session)],
              tag |-> "Ok", val |-> <<>>, sent |-> r.sent]
        ELSE [store |-> st, tag |-> r.tag, val |-> r.val, sent |-> r.sent]

\* delete_session that fills the hole with the last session (swap_remove)
delete_session_swap_remove(st, id) ==
    LET f == delete_fold(st.sessions, id, Len(st.sessions))
        n == Len(st.sessions)
        hole == CHOOSE i \in 1..n : st.sessions[i].id = id
    IN  IF f.target = None
        THEN [store |-> st, target |-> None]
        ELSE [store |-> [st EXCEPT !.sessions =
                            [i \in 1..(n - 1) |->
                                IF i = hole THEN st.sessions[n]
                                ELSE st.sessions[i]]],
              target |-> f.target]

\* delete_session that also takes the counter back by one on a hit
delete_session_rewinds(st, id) ==
    LET f == delete_fold(st.sessions, id, Len(st.sessions))
    IN  [store |-> [st EXCEPT !.sessions = f.accumulator,
                              !.session_id_counter =
                                  IF f.target = None THEN @ ELSE @ - 1],
         target |-> f.target]

\* Store::delete_session(id): the store afterwards and the Option
delete_session(st, id) ==
    LET f == delete_fold(st.sessions, id, Len(st.sessions))
    IN  [store |-> [st EXCEPT !.sessions = f.accumulator],
         target |-> f.target]

(* ---------------------------------------------------------------------- *)
(* chat_models.rs: the sessions and the Store that hold no client          *)
(* ---------------------------------------------------------------------- *)

\* chat_models.rs ChatMessageTrait::get_role
cm_get_role(msg) == msg.role

\* chat_models.rs ChatMessageTrait::get_content
cm_get_content(msg) == IF msg.content = None THEN "" ELSE msg.content[1]

\* chat_models.rs Message::new(id, role, content); t is the clock reading
cm_Message_new(id, role, content, t) ==
    [id |-> id, content |-> content, created_at |-> t, role |-> role]

\* chat_models.rs ChatSession::new(id, title)
cm_ChatSession_new(id, title) ==
    [id |-> id, title |-> title, messages |-> <<>>, msg_id_counter |-> 0]

\* chat_models.rs ChatSession::add_chat_message(msg)
cm_add_chat_message(s, msg, t) ==
    LET id == s.msg_id_counter
    IN  [s EXCEPT !.msg_id_counter = s.msg_id_counter + 1,
                  !.messages = Append(s.messages,
                      cm_Message_new(id, cm_get_role(msg),
                                     cm_get_content(msg), t))]

\* chat_models.rs Store::new(): no sessions, counter 0
cm_Store_new == [sessions |-> <<>>, msg_id_counter |-> 0]

\* chat_models.rs Store::get_all_sessions
cm_get_all_sessions(st) == st.sessions

\* chat_models.rs Store::get_session(id): iter().find
cm_get_session(st, id) ==
    LET hits == {i \in 1..Len(st.sessions) : st.sessions[i].id = id}
    IN  IF hits = {}
        THEN None
        ELSE Some(st.sessions[CHOOSE i \in hits : \A j \in hits : i <= j])

\* add_session that takes the id from the number of sessions held
cm_add_session_id_from_len(st, msg, title, t) ==
    LET id == Len(st.sessions)
        chs0 == cm_ChatSession_new(id, title)
        chs1 == cm_add_chat_message(chs0, msg, t)
    IN  [st EXCEPT !.msg_id_counter = st.msg_id_counter + 1,
                   !.sessions = Append(st.sessions, chs1)]

\* chat_models.rs Store::add_session(msg, title): the store afterwards
cm_add_session(st, msg, title, t) ==
    LET id == st.msg_id_counter
        chs0 == cm_ChatSession_new(id, title)
        chs1 == cm_add_chat_message(chs0, msg, t)
    IN  [st EXCEPT !.msg_id_counter = st.msg_id_counter + 1,
                   !.sessions = Append(st.sessions, chs1)]

\* The fold of chat_models.rs Store::delete_session over sessions[1..n]
RECURSIVE cm_delete_fold(_, _, _)
cm_delete_fold(sessions, id, n) ==
    IF n = 0
    THEN [accumulator |-> <<>>, target |-> None]
    ELSE LET prev == cm_delete_fold(sessions, id, n - 1)
             curr == sessions[n]
         IN  IF curr.id = id
             THEN [accumulator |-> prev.accumulator, target |-> Some(curr)]
             ELSE [accumulator |-> Append(prev.accumulator, curr),
                   target |-> prev.target]

\* chat_models.rs Store::delete_session(id): the store afterwards and the
\* Option
cm_delete_session(st, id) ==
    LET f == cm_delete_fold(st.sessions, id, Len(st.sessions))
    IN  [store |-> [st EXCEPT !.sessions = f.accumulator],
         target |-> f.target]

(* ---------------------------------------------------------------------- *)
(* Inputs                                                                  *)
(* ---------------------------------------------------------------------- *)

\* texts a user submits
Contents == {"", "hello"}
\* titles handed to rename_session: the title at creation and the empty text
Titles == {"Chat 1", ""}
\* OpenAIError values the client reports
Errors == {"ApiError", "Reqwest"}

\* wire messages handed to add_chat_message
ChatMsgs ==
    {RequestMsg("User", Some("Request chat")),
     ResponseMsg("Assistant", Some("Response chat")),
     RequestMsg("System", None),
     [role |-> "System", content |-> Some(""), name |-> Some("bob"),
      function_call |-> None]}

\* the (msg, title, model) arguments handed to add_session
CreateInputs ==
    {<<RequestMsg("User", Some("hello")), "Chat 1", "model-x">>,
     <<RequestMsg("System", None), "New title", CHAT_MODEL>>,
     <<RequestMsg("Assistant", Some("hello")), "Chat 1", "model-x">>}

Choice(role, content) == [message |-> ResponseMsg(role, content)]

\* what client.chat().create(request) yields
ClientOutcomes ==
    {[tag |-> "Err", err |-> e] : e \in Errors}
    \cup {[tag |-> "Response", choices |-> c] :
            c \in {<<>>,
                   <<Choice("Assistant", Some("hi there"))>>,
                   <<Choice("System", None)>>,
                   <<Choice("User", Some("hello")),
                     Choice("Assistant", Some("hi there"))>>}}

\* readings of SystemTime::now(), in seconds since the epoch
Times == {0, 1}
\* the readings possible once t has been read
From(t) == {u \in Times : u >= t}

MsgIds == 0..MaxMsgId
SessionIds == 0..MaxSessionId

(* ---------------------------------------------------------------------- *)
(* State                                                                   *)
(* ---------------------------------------------------------------------- *)

VARIABLES
    chs,        \* a ChatSession owned by the caller (as in the crate's tests)
    store,      \* the Store
    clock,      \* the last reading of SystemTime::now(), in seconds
    panicked,   \* TRUE once a call has panicked
    op,         \* the last call: its name and arguments
    ret,        \* what the last call returned
    pre,        \* chs and store as they were before the last call
    sent,       \* the requests the client received during the last call
    replied,    \* what the client answered to them
    issued,     \* the message ids given to records of chs, oldest first
    given,      \* the session ids given to registered sessions, oldest first
    cm_store,   \* the Store of chat_models.rs
    cm_ret      \* what the last call on cm_store returned

vars ==
    <<chs, store, clock, panicked, op, ret, pre, sent, replied, issued, given,
      cm_store, cm_ret>>

Snapshot == [chs |-> chs, store |-> store]

\* ids of the records items[from+1 .. Len(items)]
NewIds(items, from) == [i \in 1..(Len(items) - from) |-> items[from + i].id]

Init ==
    /\ chs = ChatSession_new(25, "Chat 1", "model-x")
    /\ store = Store_new
    /\ clock = 0
    /\ panicked = FALSE
    /\ op = [name |-> "new", arg |-> <<>>]
    /\ ret = [tag |-> "Unit", val |-> <<>>]
    /\ pre = [chs |-> chs, store |-> store]
    /\ sent = <<>>
    /\ replied = <<>>
    /\ issued = <<>>
    /\ given = <<>>
    /\ cm_store = cm_Store_new
    /\ cm_ret = [tag |-> "Unit", val |-> <<>>]

(* ---------------------------------------------------------------------- *)
(* Calls on the caller's session                                           *)
(* ---------------------------------------------------------------------- *)

\* chs.add_chat_message(msg)
AddChatMessage ==
    \E msg \in ChatMsgs, t \in From(clock) :
        /\ ~panicked
        /\ chs.msg_id_counter < MaxMsgId
        /\ chs' = add_chat_message(chs, msg, t)
        /\ clock' = t
        /\ op' = [name |-> "add_chat_message", arg |-> <<msg>>]
        /\ ret' = [tag |-> "Unit", val |-> <<>>]
        /\ pre' = Snapshot
        /\ sent' = <<>>
        /\ replied' = <<>>
        /\ issued' = issued \o NewIds(chs'.messages, Len(chs.messages))
        /\ UNCHANGED <<store, panicked, given, cm_store, cm_ret>>

\* chs.add_message(contents, client)
AddMessage ==
    \E contents \in Contents, outcome \in ClientOutcomes,
       t0 \in From(clock) :
      \E t1 \in From(t0) :
        \E t2 \in From(t1) :
          LET r == add_message(chs, contents, outcome, t0, t1, t2)
          IN  /\ ~panicked
              /\ chs.msg_id_counter + 2 <= MaxMsgId
              /\ chs' = r.session
              /\ clock' = IF r.tag = "Ok" THEN t2 ELSE t0
              /\ panicked' = (r.tag = "Panic")
              /\ op' = [name |-> "add_message", arg |-> <<contents>>]
              /\ ret' = [tag |-> r.tag, val |-> r.val]
              /\ pre' = Snapshot
              /\ sent' = r.sent
              /\ replied' = <<outcome>>
              /\ issued' = issued \o NewIds(chs'.messages, Len(chs.messages))
              /\ UNCHANGED <<store, given, cm_store, cm_ret>>

\* chs.delete_message(id)
DeleteMessage ==
    \E id \in MsgIds :
        LET r == delete_message(chs, id)
        IN  /\ ~panicked
            /\ chs' = r.session
            /\ op' = [name |-> "delete_message", arg |-> <<id>>]
            /\ ret' = [tag |-> IF r.target = None THEN "None" ELSE "Some",
                       val |-> r.target]
            /\ pre' = Snapshot
            /\ sent' = <<>>
            /\ replied' = <<>>
            /\ UNCHANGED <<store, clock, panicked, issued, given, cm_store,
                           cm_ret>>

\* chs.rename_session(new_title)
RenameSession ==
    \E new_title \in Titles :
        /\ ~panicked
        /\ chs' = rename_session(chs, new_title)
        /\ op' = [name |-> "rename_session", arg |-> <<new_title>>]
        /\ ret' = [tag |-> "Unit", val |-> <<>>]
        /\ pre' = Snapshot
        /\ sent' = <<>>
        /\ replied' = <<>>
        /\ UNCHANGED <<store, clock, panicked, issued, given, cm_store,
                       cm_ret>>

(* ---------------------------------------------------------------------- *)
(* Calls on the store                                                      *)
(* ---------------------------------------------------------------------- *)

\* store.add_session(msg, title, model)
AddSession ==
    \E in \in CreateInputs, outcome \in ClientOutcomes,
       t0 \in From(clock) :
      \E t1 \in From(t0) :
        \E t2 \in From(t1) :
          LET msg == in[1]
              title == in[2]
              model == in[3]
              r == add_session(store, msg, title, model, outcome, t0, t1, t2)
          IN  /\ ~panicked
              /\ store.session_id_counter < MaxSessionId
              /\ store' = r.store
              /\ clock' = IF r.tag = "Ok" THEN t2 ELSE t0
              /\ panicked' = (r.tag = "Panic")
              /\ op' = [name |-> "add_session",
                        arg |-> <<msg, title, model>>]
              /\ ret' = [tag |-> r.tag, val |-> r.val]
              /\ pre' = Snapshot
              /\ sent' = r.sent
              /\ replied' = <<outcome>>
              /\ given' = given \o
                          NewIds(store'.sessions, Len(store.sessions))
              /\ UNCHANGED <<chs, issued, cm_store, cm_ret>>

\* store.delete_session(id)
DeleteSession ==
    \E id \in SessionIds :
        LET r == delete_session(store, id)
        IN  /\ ~panicked
            /\ store' = r.store
            /\ op' = [name |-> "delete_session", arg |-> <<id>>]
            /\ ret' = [tag |-> IF r.target = None THEN "None" ELSE "Some",
                       val |-> r.target]
            /\ pre' = Snapshot
            /\ sent' = <<>>
            /\ replied' = <<>>
            /\ UNCHANGED <<chs, clock, panicked, issued, given, cm_store,
                           cm_ret>>

\* store.get_session(id)
GetSession ==
    \E id \in SessionIds :
        LET r == get_session(store, id)
        IN  /\ ~panicked
            /\ op' = [name |-> "get_session", arg |-> <<id>>]
            /\ ret' = [tag |-> IF r = None THEN "None" ELSE "Some",
                       val |-> r]
            /\ pre' = Snapshot
            /\ sent' = <<>>
            /\ replied' = <<>>
            /\ UNCHANGED <<chs, store, clock, panicked, issued, given,
                           cm_store, cm_ret>>

SessionNext == AddChatMessage \/ AddMessage \/ DeleteMessage \/ RenameSession

StoreNext == AddSession \/ DeleteSession \/ GetSession

Next == SessionNext \/ StoreNext

\* the caller works on its own session only
SessionSpec == Init /\ [][SessionNext]_vars

\* the caller works on the store only
StoreSpec == Init /\ [][StoreNext]_vars

Spec == Init /\ [][Next]_vars

\* calls on the caller's session, made while the store is as created
OnSession ==
    /\ op.name \in {"new", "add_chat_message", "add_message",
                    "delete_message", "rename_session"}
    /\ SessionNext

\* calls on the store, made while the caller's session is as created
OnStore ==
    /\ op.name \in {"new", "add_session", "delete_session", "get_session"}
    /\ StoreNext

CallerNext == OnSession \/ OnStore

\* the caller works on one of the two objects, its session or the store
CallerSpec == Init /\ [][CallerNext]_vars

(* ---------------------------------------------------------------------- *)
(* The two Stores side by side: every call is made on both                 *)
(* ---------------------------------------------------------------------- *)

\* answers of the client that carry a choice, the one that is taken
SucceedingOutcomes ==
    {o \in ClientOutcomes : o.tag = "Response" /\ Len(o.choices) = 1}

\* the later of two clock readings
LaterOf(t, u) == IF t >= u THEN t ELSE u

\* add_session(msg, title, ..) on both stores, the client answering; tc is
\* the clock reading of the one Message::new of chat_models.rs
PairAddSession ==
    \E in \in CreateInputs, outcome \in SucceedingOutcomes,
       t0 \in From(clock), tc \in From(clock) :
      \E t1 \in From(t0) :
        \E t2 \in From(t1) :
          LET msg == in[1]
              title == in[2]
              model == in[3]
              r == add_session(store, msg, title, model, outcome, t0, t1, t2)
          IN  /\ ~panicked
              /\ store.session_id_counter < MaxSessionId
              /\ store' = r.store
              /\ cm_store' = cm_add_session(cm_store, msg, title, tc)
              /\ clock' = LaterOf(t2, tc)
              /\ panicked' = (r.tag = "Panic")
              /\ op' = [name |-> "add_session",
                        arg |-> <<msg, title, model>>]
              /\ ret' = [tag |-> r.tag, val |-> r.val]
              /\ cm_ret' = [tag |-> "Unit", val |-> <<>>]
              /\ pre' = Snapshot
              /\ sent' = r.sent
              /\ replied' = <<outcome>>
              /\ given' = given \o
                          NewIds(store'.sessions, Len(store.sessions))
              /\ UNCHANGED <<chs, issued>>

\* delete_session(id) on both stores
PairDeleteSession ==
    \E id \in SessionIds :
        LET r == delete_session(store, id)
            c == cm_delete_session(cm_store, id)
        IN  /\ ~panicked
            /\ store' = r.store
            /\ cm_store' = c.store
            /\ op' = [name |-> "delete_session", arg |-> <<id>>]
            /\ ret' = [tag |-> IF r.target = None THEN "None" ELSE "Some",
                       val |-> r.target]
            /\ cm_ret' = [tag |-> IF c.target = None THEN "None" ELSE "Some",
                          val |-> c.target]
            /\ pre' = Snapshot
            /\ sent' = <<>>
            /\ replied' = <<>>
            /\ UNCHANGED <<chs, clock, panicked, issued, given>>

\* get_session(id) on both stores
PairGetSession ==
    \E id \in SessionIds :
        LET r == get_session(store, id)
            c == cm_get_session(cm_store, id)
        IN  /\ ~panicked
            /\ op' = [name |-> "get_session", arg |-> <<id>>]
            /\ ret' = [tag |-> IF r = None THEN "None" ELSE "Some",
                       val |-> r]
            /\ cm_ret' = [tag |-> IF c = None THEN "None" ELSE "Some",
                          val |-> c]
            /\ pre' = Snapshot
            /\ sent' = <<>>
            /\ replied' = <<>>
            /\ UNCHANGED <<chs, store, cm_store, clock, panicked, issued,
                           given>>

PairNext == PairAddSession \/ PairDeleteSession \/ PairGetSession

\* the same calls are made on the Store of lib.rs and on the Store of
\* chat_models.rs
PairSpec == Init /\ [][PairNext]_vars

(* ---------------------------------------------------------------------- *)
(* Helpers of the properties                                               *)
(* ---------------------------------------------------------------------- *)

Ids(items) == {items[i].id : i \in 1..Len(items)}

StrictlyIncreasing(ids) ==
    \A i, j \in 1..Len(ids) : i < j => ids[i] < ids[j]

DistinctIds(items) ==
    \A i, j \in 1..Len(items) : i # j => items[i].id # items[j].id

\* the last call was name and the client answered it with a response that
\* has at least one choice
Answered(name) ==
    /\ op.name = name
    /\ Len(replied) = 1
    /\ replied[1].tag = "Response"
    /\ Len(replied[1].choices) > 0

\* the last call was name and the client reported an error
Failed(name) ==
    /\ op.name = name
    /\ Len(replied) = 1
    /\ replied[1].tag = "Err"

\* the last call was name and the client answered with no choice at all
AnsweredEmpty(name) ==
    /\ op.name = name
    /\ Len(replied) = 1
    /\ replied[1].tag = "Response"
    /\ Len(replied[1].choices) = 0

\* the message the client returned to the last call
Reply == replied[1].choices[1].message

\* role and content of a stored record
RoleContent(m) == [role |-> m.role, content |-> m.content]

(* ---------------------------------------------------------------------- *)
(* Properties of one session (SessionSpec)                                 *)
(* ---------------------------------------------------------------------- *)

\* C1: the ids given to newly stored messages of a session are strictly
\* increasing over the whole history of appends, submits and deletions (so
\* none is given twice), and the ids present in the session are pairwise
\* distinct.
C1_IdsIncreaseAndNeverRepeat ==
    /\ StrictlyIncreasing(issued)
    /\ DistinctIds(chs.messages)

\* C1 witness: a record was stored after an earlier record had been deleted
C1_Witness ==
    LET added == Len(chs.messages) - Len(pre.chs.messages)
    IN  /\ op.name \in {"add_chat_message", "add_message"}
        /\ added > 0
        /\ Len(issued) - added > Len(pre.chs.messages)
        /\ Len(pre.chs.messages) > 0

\* C2: a submit the client answers appends exactly two records, the User
\* record with the submitted content and id c, then the reply with id c+1
\* (c the counter before the call); the records stored before keep position
\* and fields, and the counter ends at c+2.
C2_SubmitAppendsUserThenReply ==
    Answered("add_message") =>
        LET old == pre.chs.messages
            n == Len(old)
            c == pre.chs.msg_id_counter
        IN  /\ ret.tag = "Ok"
            /\ Len(chs.messages) = n + 2
            /\ \A i \in 1..n : chs.messages[i] = old[i]
            /\ chs.messages[n + 1].id = c
            /\ RoleContent(chs.messages[n + 1]) =
                   [role |-> "User", content |-> op.arg[1]]
            /\ chs.messages[n + 2].id = c + 1
            /\ RoleContent(chs.messages[n + 2]) =
                   [role |-> Reply.role,
                    content |-> IF Reply.content = None THEN ""
                                ELSE Reply.content[1]]
            /\ chs.msg_id_counter = c + 2

\* C2 witness: an answered submit on a session that already held records
C2_Witness ==
    /\ Answered("add_message")
    /\ Len(pre.chs.messages) >= 2
    /\ Len(chs.messages) = Len(pre.chs.messages) + 2

\* C3: when the client reports an error the submit returns failure and the
\* message sequence is the one before the call.
C3_FailedSubmitStoresNothing ==
    Failed("add_message") =>
        /\ ret.tag = "Err"
        /\ chs.messages = pre.chs.messages

\* C3 witness: a failed submit on a session that holds records
C3_Witness ==
    /\ Failed("add_message")
    /\ ret.tag = "Err"
    /\ Len(pre.chs.messages) >= 1

\* C4: a response without choices makes the submit return a failure value,
\* without a panic, and leaves the messages unchanged.
C4_EmptyChoicesIsAFailureValue ==
    AnsweredEmpty("add_message") =>
        /\ ~panicked
        /\ ret.tag = "Err"
        /\ chs.messages = pre.chs.messages

\* C5: the messages handed to the client are the role/content projection of
\* the stored messages in stored order followed by one User entry with the
\* submitted content, and the model passed is the session's own model.
C5_PayloadIsHistoryPlusPendingTurn ==
    op.name = "add_message" =>
        LET old == pre.chs.messages
            n == Len(old)
        IN  /\ Len(sent) = 1
            /\ Len(sent[1].messages) = n + 1
            /\ \A i \in 1..n :
                 sent[1].messages[i] =
                     [role |-> old[i].role, content |-> <<old[i].content>>,
                      name |-> <<>>, function_call |-> <<>>]
            /\ sent[1].messages[n + 1] =
                   [role |-> "User", content |-> <<op.arg[1]>>,
                    name |-> <<>>, function_call |-> <<>>]
            /\ sent[1].model = pre.chs.model

\* C5 witness: a submit on a session with stored records whose model is not
\* the default model
C5_Witness ==
    /\ op.name = "add_message"
    /\ Len(pre.chs.messages) >= 2
    /\ pre.chs.model # CHAT_MODEL
    /\ Len(sent) = 1

(* ---------------------------------------------------------------------- *)
(* Properties of the store (StoreSpec)                                     *)
(* ---------------------------------------------------------------------- *)

\* C6: when the client reports an error during add_session the call returns
\* that same error and the session list is what it was before; the session
\* that failed is found neither in the list nor by get_session.
C6_FailedCreateRegistersNothing ==
    Failed("add_session") =>
        /\ ret.tag = "Err"
        /\ ret.val = replied[1].err
        /\ store.sessions = pre.store.sessions
        /\ pre.store.session_id_counter \notin Ids(get_all_sessions(store))
        /\ get_session(store, pre.store.session_id_counter) = <<>>
        /\ (pre.store.sessions = <<>> => Len(store.sessions) = 0)

\* C6 witness: a failed creation on a store that holds a session
C6_Witness ==
    /\ Failed("add_session")
    /\ ret.tag = "Err"
    /\ Len(pre.store.sessions) >= 1

\* C7: a successful add_session on a store with counter g appends one
\* session at the end, with id g, the given title and the two messages
\* (0, User, content of the initial message), (1, the client's reply); the
\* sessions already listed are unchanged and in order; the first session a
\* store ever registers has id 0.
C7_CreateAppendsOneSession ==
    (op.name = "add_session" /\ ret.tag = "Ok") =>
        LET old == pre.store.sessions
            n == Len(old)
            g == pre.store.session_id_counter
            new == store.sessions[n + 1]
            initial == op.arg[1]
        IN  /\ Len(store.sessions) = n + 1
            /\ \A i \in 1..n : store.sessions[i] = old[i]
            /\ new.id = g
            /\ new.title = op.arg[2]
            /\ Len(new.messages) = 2
            /\ new.messages[1].id = 0
            /\ RoleContent(new.messages[1]) =
                   [role |-> "User",
                    content |-> IF initial.content = <<>> THEN ""
                                ELSE initial.content[1]]
            /\ new.messages[2].id = 1
            /\ RoleContent(new.messages[2]) =
                   [role |-> Reply.role,
                    content |-> IF Reply.content = <<>> THEN ""
                                ELSE Reply.content[1]]
            /\ (Len(given) = 1 => new.id = 0)

\* C7 witness: a successful creation on a store that lists a session and
\* has had a session deleted
C7_Witness ==
    /\ op.name = "add_session"
    /\ ret.tag = "Ok"
    /\ Len(pre.store.sessions) >= 1
    /\ pre.store.session_id_counter > Len(pre.store.sessions)

\* C8: the session ids in the store are pairwise distinct, and no id is
\* given to two registered sessions over the whole history of successful
\* and failed creations and deletions.
C8_SessionIdsDistinctNeverReused ==
    /\ DistinctIds(store.sessions)
    /\ \A i, j \in 1..Len(given) : i # j => given[i] # given[j]

\* C8 witness: a session was registered after a deletion and a failed
\* creation's id was taken by no one
C8_Witness ==
    /\ op.name = "add_session"
    /\ ret.tag = "Ok"
    /\ Len(given) >= 2
    /\ Len(store.sessions) < Len(given)

(* ---------------------------------------------------------------------- *)
(* Properties of deletion in one session (SessionSpec)                     *)
(* ---------------------------------------------------------------------- *)

\* the first of two delete_message(id) calls on a session that contains id
C9_FirstCall ==
    (op.name = "delete_message" /\ op.arg[1] \in Ids(pre.chs.messages)) =>
        /\ ret.tag = "Some"
        /\ \E i \in 1..Len(pre.chs.messages) :
             /\ pre.chs.messages[i].id = op.arg[1]
             /\ ret.val[1] = pre.chs.messages[i]
        /\ Len(chs.messages) = Len(pre.chs.messages) - 1

\* the second call, made right after the first with the same id
C9_SecondCall ==
    (/\ op.name = "delete_message"
     /\ ret.tag = "Some"
     /\ op'.name = "delete_message"
     /\ op'.arg = op.arg) =>
        /\ ret'.tag = "None"
        /\ Len(chs'.messages) = Len(chs.messages)

\* C9: delete_message(id) twice in a row on a session that contains id: the
\* first call returns the stored record (id, role, content, timestamp) and
\* shortens the sequence by one, the second returns none and leaves the
\* length unchanged.
C9_DeleteTwice == [](C9_FirstCall) /\ [][C9_SecondCall]_vars

\* C9 witness: delete_message returned none for an id that had been given
\* to a record of this session and deleted before
C9_Witness ==
    /\ op.name = "delete_message"
    /\ ret.tag = "None"
    /\ \E i \in 1..Len(issued) : issued[i] = op.arg[1]
    /\ Len(chs.messages) >= 1

\* C10: delete_message(id) removes the matching record only: the other
\* records stay with their fields and relative order, title, session id and
\* counter are unchanged, and when no record has the id the sequence is as
\* before and none is returned.
C10_DeleteFrame ==
    op.name = "delete_message" =>
        LET old == pre.chs.messages
            id == op.arg[1]
        IN  /\ chs.messages = SelectSeq(old, LAMBDA m : m.id # id)
            /\ chs.title = pre.chs.title
            /\ chs.id = pre.chs.id
            /\ chs.msg_id_counter = pre.chs.msg_id_counter
            /\ (id \notin Ids(old) =>
                    /\ chs.messages = old
                    /\ ret.tag = "None")

\* C10 witness: a record in the middle of the sequence was deleted
C10_Witness ==
    /\ op.name = "delete_message"
    /\ ret.tag = "Some"
    /\ Len(chs.messages) >= 2
    /\ \E i \in 2..Len(pre.chs.messages) - 1 :
         pre.chs.messages[i].id = op.arg[1]

(* ---------------------------------------------------------------------- *)
(* Properties of deletion and lookup in the store (StoreSpec)              *)
(* ---------------------------------------------------------------------- *)

\* one delete_session(id) call: what it returns and what it leaves
C11_Call ==
    op.name = "delete_session" =>
        LET old == pre.store.sessions
            id == op.arg[1]
        IN  /\ store.sessions = SelectSeq(old, LAMBDA s : s.id # id)
            /\ (id \in Ids(old) =>
                    /\ ret.tag = "Some"
                    /\ ret.val[1].id = id
                    /\ \E i \in 1..Len(old) : old[i] = ret.val[1]
                    /\ get_session(store, id) = <<>>)
            /\ (id \notin Ids(old) =>
                    /\ ret.tag = "None"
                    /\ store.sessions = old)

\* a session id that was registered and is no longer listed never comes
\* back, and a delete_session or get_session for it returns none and
\* changes nothing
C11_Further ==
    \A id \in SessionIds :
        (/\ \E k \in 1..Len(given) : given[k] = id
         /\ id \notin Ids(store.sessions)) =>
            /\ id \notin Ids(store'.sessions)
            /\ (op'.name \in {"delete_session", "get_session"}
                /\ op'.arg = <<id>>) =>
                    (ret'.tag = "None" /\ store' = store)

\* C11: delete_session(id) on a store that lists id returns that session
\* and leaves the other sessions unchanged in their order ([0,1,2] minus 1
\* is [0,2]); afterwards get_session(id) and every further
\* delete_session(id) return none and change nothing; for an absent id the
\* list is unchanged and none is returned.
C11_DeleteSession == [](C11_Call) /\ [][C11_Further]_vars

\* C11 witness: session 1 was deleted from the list [0, 1, 2]
C11_Witness ==
    /\ op.name = "delete_session"
    /\ op.arg = <<1>>
    /\ ret.tag = "Some"
    /\ [i \in 1..Len(pre.store.sessions) |-> pre.store.sessions[i].id]
           = <<0, 1, 2>>
    /\ [i \in 1..Len(store.sessions) |-> store.sessions[i].id] = <<0, 2>>

\* C12: in every reachable state get_session(id) yields a session exactly
\* when a session with that id is listed, the session it yields has that id,
\* and the call changes nothing.
C12_GetSession ==
    /\ \A id \in SessionIds :
         LET r == get_session(store, id)
         IN  /\ (r # <<>>) <=> (\E i \in 1..Len(store.sessions) :
                                    store.sessions[i].id = id)
             /\ r # <<>> => (r[1].id = id /\
                             \E i \in 1..Len(store.sessions) :
                                 store.sessions[i] = r[1])
    /\ op.name = "get_session" =>
         /\ store = pre.store
         /\ (ret.tag = "Some") <=> (op.arg[1] \in Ids(store.sessions))
         /\ ret.tag = "Some" => ret.val[1].id = op.arg[1]
         /\ ret.tag = "None" => ret.val = <<>>

\* C12 witness: a lookup of a deleted id returned none while a lookup-able
\* session with a larger id is still listed
C12_Witness ==
    /\ op.name = "get_session"
    /\ ret.tag = "None"
    /\ \E k \in 1..Len(given) : given[k] = op.arg[1]
    /\ \E i \in 1..Len(store.sessions) : store.sessions[i].id > op.arg[1]

(* ---------------------------------------------------------------------- *)
(* Conversions between wire messages and records (SessionSpec)             *)
(* ---------------------------------------------------------------------- *)

\* C13: a wire message appended with add_chat_message and converted back
\* with to_chat_resquest_msg or to_chat_response_msg has the same role and,
\* when its content was present, the same content; an absent content is
\* stored as the empty text and comes back as Some(""); name and
\* function_call are absent in what comes back.
C13_RoundTrip ==
    op.name = "add_chat_message" =>
        LET wire == op.arg[1]
            record == chs.messages[Len(chs.messages)]
            request == to_chat_resquest_msg(record)
            response == to_chat_response_msg(record)
        IN  /\ request.role = wire.role
            /\ response.role = wire.role
            /\ (wire.content # <<>> =>
                    /\ request.content = wire.content
                    /\ response.content = wire.content)
            /\ (wire.content = <<>> =>
                    /\ record.content = ""
                    /\ request.content = <<"">>
                    /\ response.content = <<"">>)
            /\ request.name = <<>>
            /\ request.function_call = <<>>
            /\ response.function_call = <<>>

\* C13 witness: a message without content was appended
C13_Witness ==
    /\ op.name = "add_chat_message"
    /\ op.arg[1].content = <<>>
    /\ Len(chs.messages) >= 1
    /\ chs.messages[Len(chs.messages)].role = op.arg[1].role

(* ---------------------------------------------------------------------- *)
(* The calls that reach the client (CallerSpec)                            *)
(* ---------------------------------------------------------------------- *)

\* C14: every add_message and every add_session call invokes the client
\* exactly once, whether it succeeds or fails, and a failure of that one
\* invocation is what the call returns; calls of the other methods invoke
\* it not at all.
C14_ClientCalledOnce ==
    /\ op.name \in {"add_message", "add_session"} =>
           /\ Len(sent) = 1
           /\ Len(replied) = 1
           /\ (replied[1].tag = "Err" =>
                   /\ ret.tag = "Err"
                   /\ ret.val = replied[1].err)
    /\ op.name \notin {"add_message", "add_session"} => Len(sent) = 0

\* C14 witness: a failed add_session on a store that lists sessions, after
\* one request
C14_Witness ==
    /\ Failed("add_session")
    /\ Len(sent) = 1
    /\ Len(pre.store.sessions) >= 2

(* ---------------------------------------------------------------------- *)
(* What add_session returns and what the store keeps (StoreSpec)           *)
(* ---------------------------------------------------------------------- *)

\* C15 as stated: a successful add_session returns the id of the session it
\* registered, the value of the counter before the call.
C15_ReturnsNewId ==
    (op.name = "add_session" /\ ret.tag = "Ok") =>
        ret.val = <<pre.store.session_id_counter>>

\* C15 amended: a successful add_session returns the unit value, no id; the
\* session it registered is the last of the list and its id is the value
\* the counter had before the call.
C15_ReturnsUnitIdIsOldCounter ==
    (op.name = "add_session" /\ ret.tag = "Ok") =>
        /\ ret.val = <<>>
        /\ Len(store.sessions) = Len(pre.store.sessions) + 1
        /\ store.sessions[Len(store.sessions)].id =
               pre.store.session_id_counter

\* C15 witness: a successful add_session on a store whose counter is 2
C15_Witness ==
    /\ op.name = "add_session"
    /\ ret.tag = "Ok"
    /\ pre.store.session_id_counter = 2
    /\ store.session_id_counter = 3

\* a call on the store after which the session listed at position i holds
\* two more messages than before
SubmitThroughStore(i) ==
    /\ StoreNext
    /\ \E j \in 1..Len(store'.sessions) :
         /\ store'.sessions[j].id = store.sessions[i].id
         /\ Len(store'.sessions[j].messages) =
                Len(store.sessions[i].messages) + 2

\* C16 as stated: for every session registered in the store a user turn can
\* be submitted to it through the store, after which it holds two more
\* messages.
C16_TurnCanBeSubmittedThroughStore ==
    \A i \in 1..Len(store.sessions) : ENABLED SubmitThroughStore(i)

\* What the store does instead: it submits the first turn only and no call
\* on it changes a registered session, so every listed session holds exactly
\* the two records of its first turn, ids 0 and 1, and its counter is 2.
ListedSessionsKeepFirstTurnOnly ==
    /\ \A i \in 1..Len(store.sessions) :
         /\ Len(store.sessions[i].messages) = 2
         /\ store.sessions[i].messages[1].id = 0
         /\ store.sessions[i].messages[2].id = 1
         /\ store.sessions[i].msg_id_counter = 2
    /\ \A i \in 1..Len(store.sessions), j \in 1..Len(pre.store.sessions) :
         store.sessions[i].id = pre.store.sessions[j].id =>
             store.sessions[i] = pre.store.sessions[j]


\* C17: add_session uses only the content of the initial message: whatever
\* its role, the first record of the new session has role User and the
\* initial message's content.
C17_FirstRecordIsUserTurn ==
    (op.name = "add_session" /\ ret.tag = "Ok") =>
        LET new == store.sessions[Len(store.sessions)]
            initial == op.arg[1]
        IN  /\ new.id = pre.store.session_id_counter
            /\ new.messages[1].role = "User"
            /\ initial.content # <<>> =>
                   new.messages[1].content = initial.content[1]
            /\ initial.content = <<>> => new.messages[1].content = ""

\* C17 witness: a session was created from an initial message whose role
\* is Assistant
C17_Witness ==
    /\ op.name = "add_session"
    /\ ret.tag = "Ok"
    /\ op.arg[1].role = "Assistant"
    /\ store.sessions[Len(store.sessions)].messages[1].content = "hello"

\* C19: the counter of the store changes only on a successful add_session,
\* by one; failed creations, deletions and lookups leave it as it is, so it
\* equals the number of successful creations so far and the k-th session
\* created has id k-1.
C19_CounterCountsCreations ==
    /\ store.session_id_counter = Len(given)
    /\ \A k \in 1..Len(given) : given[k] = k - 1
    /\ (op.name = "add_session" /\ ret.tag = "Ok") =>
           /\ store.session_id_counter = pre.store.session_id_counter + 1
           /\ Len(store.sessions) = Len(pre.store.sessions) + 1
    /\ ~(op.name = "add_session" /\ ret.tag = "Ok") =>
           /\ store.session_id_counter = pre.store.session_id_counter
           /\ Len(store.sessions) <= Len(pre.store.sessions)

\* C19 witness: a creation succeeded after a failed creation and a deletion
\* had left the counter ahead of the list
C19_Witness ==
    /\ op.name = "add_session"
    /\ ret.tag = "Ok"
    /\ store.session_id_counter = 3
    /\ Len(store.sessions) = 1

(* ---------------------------------------------------------------------- *)
(* Renaming a session (SessionSpec)                                        *)
(* ---------------------------------------------------------------------- *)

\* C18: rename_session(new_title) sets the title to new_title for every
\* input, the empty text and the current title included, and leaves id,
\* model, messages and counter unchanged; a new session has the title given
\* at creation, no messages and counter 0.
C18_Rename ==
    /\ op.name = "rename_session" =>
           /\ chs.title = op.arg[1]
           /\ chs.id = pre.chs.id
           /\ chs.model = pre.chs.model
           /\ chs.messages = pre.chs.messages
           /\ chs.msg_id_counter = pre.chs.msg_id_counter
    /\ op.name = "new" =>
           /\ chs.title = "Chat 1"
           /\ chs.id = 25
           /\ chs.messages = <<>>
           /\ chs.msg_id_counter = 0

\* C18 witness: a session that holds records and an empty title was renamed
\* to the empty text
C18_Witness ==
    /\ op.name = "rename_session"
    /\ op.arg = <<"">>
    /\ pre.chs.title = ""
    /\ Len(chs.messages) >= 1

(* ---------------------------------------------------------------------- *)
(* Atomicity of a submit (CallerSpec)                                      *)
(* ---------------------------------------------------------------------- *)

\* the session a successful add_message or add_session has just written to
Committed ==
    IF op.name = "add_message" THEN chs
    ELSE store.sessions[Len(store.sessions)]

C21_IdsOrderedBelowCounter ==
    /\ \A i, j \in 1..Len(chs.messages) :
         i < j => chs.messages[i].id < chs.messages[j].id
    /\ \A i \in 1..Len(chs.messages) :
         chs.messages[i].id < chs.msg_id_counter
    /\ chs.msg_id_counter >= pre.chs.msg_id_counter
    /\ chs.msg_id_counter = Len(issued)

\* C21 witness: a record was appended to a session from whose middle a
\* record had been deleted
C21_Witness ==
    /\ op.name = "add_chat_message"
    /\ Len(chs.messages) = 3
    /\ chs.msg_id_counter = 4
    /\ chs.messages[1].id = 0
    /\ chs.messages[2].id = 2

(* ---------------------------------------------------------------------- *)
(* Failed and answered submits of one session (SessionSpec)                *)
(* ---------------------------------------------------------------------- *)

\* after a failed add_message the counter is the one before the call, the
\* id the pending turn had been built with
C22_FailureKeepsCounter ==
    Failed("add_message") =>
        /\ ret.tag = "Err"
        /\ chs.msg_id_counter = pre.chs.msg_id_counter
        /\ chs.msg_id_counter \notin Ids(chs.messages)

\* a successful add_message made right after a failed one stores its user
\* record under the id the failed attempt had used
C22_RetryTakesSameId ==
    (/\ Failed("add_message")
     /\ op'.name = "add_message"
     /\ ret'.tag = "Ok") =>
        LET n == Len(chs.messages)
        IN  /\ Len(chs'.messages) = n + 2
            /\ chs'.messages[n + 1].id = pre.chs.msg_id_counter
            /\ chs'.messages[n + 1].role = "User"

\* C22: a failed submit consumes no message id: the counter after the
\* failure equals the counter before the call, so the next successful submit
\* stores its user record under the id the failed attempt had used.
C22_FailedSubmitConsumesNoId ==
    [](C22_FailureKeepsCounter) /\ [][C22_RetryTakesSameId]_vars

\* C22 witness: add_message failed on a session whose counter is 2 and
\* which has had a record deleted, and a submit that succeeds can follow
C22_Witness ==
    /\ Failed("add_message")
    /\ ret.tag = "Err"
    /\ chs.msg_id_counter = 2
    /\ Len(chs.messages) = 1
    /\ ENABLED (AddMessage /\ ret'.tag = "Ok")

\* C23: the reply record of a successful add_message has the role and the
\* content the client returned: the role is not made Assistant, and a reply
\* without content is stored with the empty text by a call that still
\* succeeds and appends two records.
C23_ReplyStoredAsReturned ==
    Answered("add_message") =>
        LET reply == chs.messages[Len(chs.messages)]
        IN  /\ ret.tag = "Ok"
            /\ Len(chs.messages) = Len(pre.chs.messages) + 2
            /\ reply.role = Reply.role
            /\ Reply.content # <<>> => reply.content = Reply.content[1]
            /\ Reply.content = <<>> => reply.content = ""

\* C23 witness: the client returned a System message without content
C23_Witness ==
    /\ Answered("add_message")
    /\ Reply.role = "System"
    /\ Reply.content = <<>>
    /\ ret.tag = "Ok"
    /\ Len(chs.messages) = Len(pre.chs.messages) + 2

(* ---------------------------------------------------------------------- *)
(* The Store of chat_models.rs against the Store of lib.rs (PairSpec)      *)
(* ---------------------------------------------------------------------- *)

\* the ids and titles of a list of sessions, in the order of the list
IdsAndTitles(sessions) ==
    [i \in 1..Len(sessions) |->
        [id |-> sessions[i].id, title |-> sessions[i].title]]

\* the two stores hold the same ids and titles in the same order, and have
\* issued the same number of ids
SameBookkeeping ==
    /\ IdsAndTitles(get_all_sessions(store))
         = IdsAndTitles(cm_get_all_sessions(cm_store))
    /\ store.session_id_counter = cm_store.msg_id_counter

\* delete_session and get_session found a session in both stores or in
\* neither, and a session found is the one of the same id and title
SameOutcome ==
    op.name \in {"delete_session", "get_session"} =>
        /\ ret.tag = cm_ret.tag
        /\ ret.tag \in {"Some", "None"}
        /\ ret.tag = "Some" => /\ ret.val[1].id = cm_ret.val[1].id
                               /\ ret.val[1].id = op.arg[1]
                               /\ ret.val[1].title = cm_ret.val[1].title

\* what the sessions of the two stores hold: one record of the initial text
\* in chat_models.rs, a User record of that text and a second record in lib.rs
MessagesDiffer ==
    \A i \in 1..Len(store.sessions) :
        LET lib == store.sessions[i].messages
            cm == cm_store.sessions[i].messages
        IN  /\ Len(cm) = 1
            /\ Len(lib) = 2
            /\ lib[1].role = "User"
            /\ lib[1].content = cm[1].content
            /\ lib[1].id = cm[1].id

\* the session add_session has just registered: chat_models.rs kept the
\* role of the initial message, lib.rs stored the reply after the user turn
NewSessionMessages ==
    op.name = "add_session" =>
        LET n == Len(store.sessions)
            msg == op.arg[1]
        IN  /\ ret.tag = "Ok"
            /\ cm_ret.tag = "Unit"
            /\ n = Len(pre.store.sessions) + 1
            /\ cm_store.sessions[n].messages[1].role = msg.role
            /\ cm_store.sessions[n].messages[1].content = get_content(msg)
            /\ RoleContent(store.sessions[n].messages[2])
                 = [role |-> Reply.role,
                    content |-> unwrap_or(Reply.content, "")]

\* C24: run on the same add_session calls (the client answering every one)
\* and delete_session calls, the Store of chat_models.rs and the Store of
\* lib.rs hold the same session ids and titles in the same order after every
\* step and return the same found/none outcome for every delete_session and
\* get_session; their sessions differ in the stored messages, one record
\* with the role of the initial message against a User record and the reply.
C24_StoresAgreeOnBookkeeping ==
    /\ SameBookkeeping
    /\ SameOutcome
    /\ MessagesDiffer
    /\ NewSessionMessages

\* C24 witness: after two registrations and the deletion of the first
\* session, both stores found session 1 and hold it alone; chat_models.rs
\* stored its initial message as System, lib.rs as User
C24_Witness ==
    /\ op.name = "get_session"
    /\ op.arg[1] = 1
    /\ ret.tag = "Some"
    /\ cm_ret.tag = "Some"
    /\ Len(store.sessions) = 1
    /\ Len(cm_store.sessions) = 1
    /\ store.session_id_counter = 2
    /\ cm_store.sessions[1].messages[1].role = "System"
    /\ store.sessions[1].messages[1].role = "User"

====
